---- MODULE Spec2Model ----
(***************************************************************************)
(* A model of PhysicsConfettiEngine (src/src/PhysicsConfettiEngine.ts):    *)
(* the particle map, the attractor list, the two ambient fields, the       *)
(* requestAnimationFrame loop and the setTimeout-delayed spawns.           *)
(*                                                                         *)
(* Abstractions, all stated where they are made:                           *)
(*  - positions, velocities, colours and sizes are not part of the state;  *)
(*  - a life is a fixed-point number with LifeScale units per tick, drawn  *)
(*    from a small set instead of 80..700 ticks;                           *)
(*  - the StableFluids / FlowField2D objects of the external library are   *)
(*    represented by what the engine has put into them;                    *)
(*  - the tick counter saturates at MaxTime.                               *)
(***************************************************************************)
EXTENDS Integers, Sequences, FiniteSets, TLC

\* ------------------------------------------------------------------ bounds
MaxCelebrations == 1      \* accepted celebrate calls with a known recipe
MaxCount == 2             \* the particle count of the interleaving model
BigCount == 33            \* one count large enough for bloom's 8 x 4 split
MinLife == 2              \* shortest life, in ticks (the code's is 80)
MaxLife == 3              \* longest life, in ticks
LifeScale == 2            \* fixed-point units per tick
MaxTime == 1              \* the tick counter saturates here
DistScale == 20           \* units per pixel of a distance to an attractor
MaxRadius == 3            \* largest attractor radius of the force model
MaxStrength == 200        \* largest attractor strength of the force model
Unit == 1000000           \* units per pixel of a position or a velocity
MaxTicks == 3             \* ticks of the motion model
NegligiblePx == 1         \* a displacement up to this many pixels is negligible
DayScale == 2             \* units per day of a streak length
MaxDays == 366            \* longest streak length
MaxTrailTicks == 10       \* ticks of the trail model
ScenarioCount == 100      \* the count of the supernova scenario
MaxColors == 4            \* longest colour list of the palette model
MaxIndex == 5             \* largest loop index of the palette model
DrawScale == 10           \* Math.random() is drawn in steps of 1/DrawScale

\* ------------------------------------------------------- program constants
Null == 0                 \* animationId: number | null
dt == 1 * LifeScale       \* const dt = 1, in fixed-point units
ribbons == 4
rings == 4
strands == 2
petals == 8
layers == 4
pulseCount == 5
orbitCenters == 3
auroraSources == 5
cascadeSources == 7
trailLength == 8
\* createEmergence adds one central source and eight sources around it.
emergenceSources == 9

Recipes ==
  {"vortex", "supernova", "aurora", "resonance", "orbit", "cascade",
   "emergence", "harmony", "helix", "bloom", "constellation", "nebula"}

UnknownType == "unknown"

Types == Recipes \cup {UnknownType}

\* counts of the interleaving model, and of the recipe model
Counts == {0, MaxCount}

AllCounts == 0..BigCount

\* intensity = 1 is the default of celebrate()
DefaultIntensity == 1

\* Math.random() draws for a particle's life: one profile per spawn loop.
Profiles == {"mixed", "frac"}

\* the interleaving model draws every life from one profile
MainProfiles == {"mixed"}

\* window.innerWidth x innerHeight: 1000 x 800, or 110 x 110 where only the
\* centre of the Fibonacci spiral is farther than 50 from every edge.
Views == {"large", "small"}

Min(a, b) == IF a < b THEN a ELSE b

CeilDiv(a, b) == (a + b - 1) \div b

VARIABLES
  particles,          \* Map<number, PhysicsParticle>: id |-> particle
  attractors,         \* Attractor[]
  fluid,              \* recipes that injected force/density since clear()
  flowField,          \* the sources installed in the FlowField2D
  lissajous,          \* the dynamically attached lissajous field, or absent
  animationId,        \* handle of the requested frame, or Null
  time,
  particleIdCounter,
  enabled,
  prefersReducedMotion,
  ctx,                \* canvas and 2D context present
  rafPending,         \* host: frame callbacks requested and not yet run
  timers,             \* host: pending setTimeout callbacks, one queue per
                      \* accepted celebrate call with a known type
  lastOp,             \* history: the operation that produced this state
  lastCfg,            \* history: the config of the last celebrate call
  afterRecipe,        \* history: particles and attractors right after the
                      \* recipe switch of the accepted celebrate that
                      \* produced this state, and those it started from
  cleared,            \* history: clear() ran and no celebrate was accepted since
  rendered,           \* history: the last operation drew on the canvas
  tickSteps,          \* history: the steps of the animate() the last
                      \* operation ran, in order, each with the number of
                      \* times that run had advanced the fields by then
  confettiService,    \* ConfettiServiceClass: enabled, prefersReducedMotion,
                      \* preferPhysics
  soundService,       \* SoundServiceClass: enabled, volume (tenths), supported
  hapticService,      \* HapticServiceClass: enabled, supported
  storage,            \* localStorage: the four celebration_* keys
  chosen,             \* history: what the user last chose for each flag
  serviceOp,          \* history: the last service operation, and whether it
                      \* called the engine's celebrate
  force,              \* one attractor and one particle at a distance from it,
                      \* and the acceleration updateParticle derives
  radiance,           \* one entry per celebrateRadiance call: the calls it
                      \* has made so far, in order, and its pending timers
  motion,             \* one vortex particle spawned with intensity 0 and its
                      \* twin spawned with intensity 1 from the same draws
  streak,             \* the last celebrateStreak(days) call and the
                      \* celebrate calls it made
  trailed,            \* one particle with its trail, and every position it
                      \* has had (history)
  palette             \* one spawn of one recipe run twice, with the same
                      \* configuration and two draws of Math.random()

engine == <<particles, attractors, fluid, flowField, lissajous, animationId,
            time, particleIdCounter, enabled, prefersReducedMotion, ctx>>

host == <<rafPending, timers>>

history == <<lastOp, lastCfg, afterRecipe, cleared, rendered, tickSteps>>

services == <<confettiService, soundService, hapticService, storage>>

serviceHistory == <<chosen, serviceOp>>

\* everything outside the engine and its host callbacks
outside == <<services, serviceHistory, radiance>>

\* the particle kinematics, modelled apart from the engine's bookkeeping
\* calls followed on their own, apart from the engine's bookkeeping
studies == <<streak, trailed, palette>>

probes == <<force, motion, studies>>

vars == <<engine, host, history, outside, probes>>

\* ------------------------------------------------------------ engine state
\* The fields an operation reads and writes, as one record.
This ==
  [particles |-> particles, attractors |-> attractors, fluid |-> fluid,
   flowField |-> flowField, lissajous |-> lissajous,
   animationId |-> animationId, time |-> time,
   particleIdCounter |-> particleIdCounter, rafPending |-> rafPending,
   timers |-> timers, rendered |-> FALSE, steps |-> <<>>, advanced |-> 0]

NoParticles == [i \in {} |-> 0]

NoFlow == [owner |-> "none", sources |-> 0]

NoCfg == [type |-> "none", count |-> 0, view |-> "large", accepted |-> FALSE]

NoSnapshot ==
  [particles |-> NoParticles, attractors |-> <<>>,
   beforeParticles |-> NoParticles, beforeAttractors |-> <<>>, beforeCounter |-> 0,
   loopStarted |-> FALSE]

\* ------------------------------------------------------------- addParticle
LifeOf(profile, i) ==
  CASE profile = "short" -> MinLife * LifeScale
    [] profile = "long"  -> MaxLife * LifeScale
    [] profile = "frac"  -> MinLife * LifeScale + 1
    [] OTHER -> IF i % 2 = 0 THEN MinLife * LifeScale ELSE MaxLife * LifeScale

\* opacity is kept as a numerator over maxLife: opacity 1 is maxLife/maxLife.
NewParticle(id, life) ==
  [id |-> id, life |-> life, maxLife |-> life, opacity |-> life]

\* mutant: the counter is not advanced
NextIdSame(counter) == counter

NextId(counter) == counter + 1

\* Map.set: k now maps to v, every other key as before
MapSet(m, k, v) == (k :> v) @@ m

addParticle(s, life) ==
  [s EXCEPT !.particleIdCounter = NextId(s.particleIdCounter),
            !.particles = MapSet(s.particles, s.particleIdCounter,
                                 NewParticle(s.particleIdCounter, life))]

\* the iteration at which a loop over i..n-1 is cut in two
Middle(i, n) == (i + n) \div 2

\* for (i = from; i < n; i++) addParticle({life: random}).  The iterations
\* run in order: those before Middle first, and the rest on the engine they
\* leave behind (the bound variable holds that engine as a finished value).

RECURSIVE SpawnLoop(_, _, _, _)
SpawnLoop(s, i, n, profile) ==
  IF i >= n THEN s
  ELSE IF n = i + 1 THEN addParticle(s, LifeOf(profile, i))
  ELSE CHOOSE done \in {SpawnLoop(half, Middle(i, n), n, profile) :
                          half \in {SpawnLoop(s, i, Middle(i, n), profile)}} : TRUE

\* ----------------------------------------------------------------- recipes
Attractor(type, strength, radius) ==
  [type |-> type, strength |-> strength, radius |-> radius, pos |-> "recipe"]

PushAttractor(s, a) == [s EXCEPT !.attractors = Append(s.attractors, a)]

AddFluid(s, recipe) == [s EXCEPT !.fluid = s.fluid \cup {recipe}]

\* flowField.clear() followed by n addSource calls
SetFlow(s, recipe, n) == [s EXCEPT !.flowField = [owner |-> recipe, sources |-> n]]

\* n setTimeout callbacks of the running celebrate call, in the order of
\* their delays
Schedule(s, kind, n, count) ==
  [s EXCEPT !.timers[Len(s.timers)] =
     @ \o [i \in 1..n |-> [kind |-> kind, i |-> i - 1, count |-> count, frames |-> 0]]]

\* for (outer = k; outer < K; outer++) for (i = 0; i < n; i++) addParticle
RECURSIVE Nested(_, _, _, _, _)
Nested(s, k, K, n, profile) ==
  IF k >= K THEN s
  ELSE IF K = k + 1 THEN SpawnLoop(s, 0, n, profile)
  ELSE CHOOSE done \in {Nested(half, Middle(k, K), K, n, profile) :
                          half \in {Nested(s, k, Middle(k, K), n, profile)}} : TRUE

createVortex(s, count, intensity, profile) ==
  SpawnLoop(AddFluid(PushAttractor(s, Attractor("vortex", 200 * intensity, 400 )),
                     "vortex"),
            0, count, profile)

\* i < count * 0.6 and i < count * 0.4, over the reals
SupernovaBurst(count) == CeilDiv(count * 6, 10)

\* mutant: the ring rounds down
SupernovaRingFloor(count) == (count * 4) \div 10

SupernovaRing(count) == CeilDiv(count * 4, 10)

createSupernova(s, count, intensity, profile) ==
  Schedule(SpawnLoop(AddFluid(s, "supernova"), 0, SupernovaBurst(count), profile), "ring", 1, count)

\* mutant: the ribbons round up
particlesPerRibbonCeil(count) == CeilDiv(count, ribbons)

particlesPerRibbon(count) == count \div ribbons

createAurora(s, count, intensity, profile) ==
  Nested(SetFlow(s, "aurora", auroraSources), 0, ribbons,
         particlesPerRibbon(count), profile)

particlesInRing(count) == count \div rings

createResonance(s, count, intensity, profile) ==
  Schedule(Nested(PushAttractor(s, Attractor("pull", 150 * intensity, 300 )),
                  0, rings, particlesInRing(count), profile), "pulse", pulseCount, count)

particlesPerCenter(count) == count \div orbitCenters

createOrbit(s, count, intensity, profile) ==
  Nested(PushAttractor(PushAttractor(PushAttractor(s,
           Attractor("orbit", 300 * intensity, 250 )),
           Attractor("orbit", 200 * intensity, 250 )),
           Attractor("orbit", 200 * intensity, 250 )),
         0, orbitCenters, particlesPerCenter(count), profile)

createCascade(s, count, intensity, profile) ==
  Schedule(SetFlow(s, "cascade", cascadeSources), "cascade", count, count)

createEmergence(s, count, intensity, profile) ==
  Schedule(SetFlow(s, "emergence", emergenceSources), "emergence", count, count)

createHarmony(s, count, intensity, profile) ==
  SpawnLoop([PushAttractor(PushAttractor(PushAttractor(s,
               Attractor("pull", 100 * intensity, 200 )),
               Attractor("pull", 100 * intensity, 200 )),
               Attractor("pull", 100 * intensity, 200 ))
             EXCEPT !.lissajous = TRUE],
            0, count, profile)

particlesPerStrand(count) == count \div strands

createHelix(s, count, intensity, profile) ==
  Nested(s, 0, strands, particlesPerStrand(count), profile)

particlesPerPetal(count) == count \div petals

layerParticles(count) == particlesPerPetal(count) \div layers

createBloom(s, count, intensity, profile) ==
  Nested(PushAttractor(s, Attractor("pull", 50 * intensity, 200 )),
         0, petals * layers, layerParticles(count), profile)

\* px > 50 && px < width - 50 && py > 50 && py < height - 50 for the i-th
\* point of the Fibonacci spiral (r = sqrt(i) * 30 around the centre)
withinScreen(i, view) == view = "large" \/ i = 0

RECURSIVE ConstellationLoop(_, _, _, _, _)
ConstellationLoop(s, i, count, view, profile) ==
  IF i >= count THEN s
  ELSE IF count = i + 1
  THEN (IF withinScreen(i, view) THEN addParticle(s, LifeOf(profile, i)) ELSE s)
  ELSE CHOOSE done \in {ConstellationLoop(half, Middle(i, count), count, view, profile) :
                          half \in {ConstellationLoop(s, i, Middle(i, count), view, profile)}} : TRUE

createConstellation(s, count, view, profile) ==
  ConstellationLoop(s, 0, count, view, profile)

createNebula(s, count, intensity, profile) ==
  SpawnLoop(AddFluid(s, "nebula"), 0, count, profile)

\* the switch of celebrate(); an unknown type matches no case
RunRecipe(s, cfg) ==
  CASE cfg.type = "vortex" -> createVortex(s, cfg.count, cfg.intensity, cfg.profile)
    [] cfg.type = "supernova" -> createSupernova(s, cfg.count, cfg.intensity, cfg.profile)
    [] cfg.type = "aurora" -> createAurora(s, cfg.count, cfg.intensity, cfg.profile)
    [] cfg.type = "resonance" -> createResonance(s, cfg.count, cfg.intensity, cfg.profile)
    [] cfg.type = "orbit" -> createOrbit(s, cfg.count, cfg.intensity, cfg.profile)
    [] cfg.type = "cascade" -> createCascade(s, cfg.count, cfg.intensity, cfg.profile)
    [] cfg.type = "emergence" -> createEmergence(s, cfg.count, cfg.intensity, cfg.profile)
    [] cfg.type = "harmony" -> createHarmony(s, cfg.count, cfg.intensity, cfg.profile)
    [] cfg.type = "helix" -> createHelix(s, cfg.count, cfg.intensity, cfg.profile)
    [] cfg.type = "bloom" -> createBloom(s, cfg.count, cfg.intensity, cfg.profile)
    [] cfg.type = "constellation" -> createConstellation(s, cfg.count, cfg.view, cfg.profile)
    [] cfg.type = "nebula" -> createNebula(s, cfg.count, cfg.intensity, cfg.profile)
    [] OTHER -> s

\* --------------------------------------------------------- animation loop
\* life -= dt; opacity = min(1, life / maxLife * 2), as a numerator over maxLife
\* mutant: the opacity is not recomputed
updateParticleNoFade(p) == [p EXCEPT !.life = p.life - dt]

updateParticle(p) ==
  [p EXCEPT !.life = p.life - dt,
            !.opacity = Min(p.maxLife, 2 * (p.life - dt))]

\* mutant: a particle whose life is exactly 0 survives
IsDeadStrict(p) == p.life < 0

IsDead(p) == p.life <= 0 \/ p.opacity <= 0

\* one more step of the running animate(), with the state of the fields
\* the step works on
Step(s, name) == Append(s.steps, [step |-> name, advanced |-> s.advanced])

\* the first min(3, length) attractors are moved onto their Lissajous curves
UpdateLissajous(s) ==
  IF s.lissajous /\ Len(s.attractors) >= 3
  THEN [s EXCEPT !.attractors =
          [i \in 1..Len(s.attractors) |->
             IF i <= Min(3, Len(s.attractors))
             THEN [s.attractors[i] EXCEPT !.pos = "lissajous"]
             ELSE s.attractors[i]],
                 !.steps = Step(s, "lissajous")]
  ELSE [s EXCEPT !.steps = Step(s, "lissajous")]

\* this.fluid.step(dt * 0.016); this.flowField.update(dt)
StepFields(s) ==
  [s EXCEPT !.advanced = s.advanced + 1,
            !.steps = Append(s.steps, [step |-> "fields", advanced |-> s.advanced + 1])]

\* the loop that updates each particle, sampling the fields as they are, and
\* the loop that deletes the dead ones
UpdateParticles(s) ==
  LET updated == [id \in DOMAIN s.particles |-> updateParticle(s.particles[id])]
      alive == {id \in DOMAIN updated : ~IsDead(updated[id])}
  IN [s EXCEPT !.particles = [id \in alive |-> updated[id]],
               !.steps = Step(s, "updateParticle") \o <<[step |-> "delete", advanced |-> s.advanced]>>]

\* requestAnimationFrame returns a handle that is not in use
FreshHandle(s) ==
  CHOOSE h \in 1..(Cardinality(s.rafPending) + 2) :
    h \notin s.rafPending \cup {s.animationId}

\* mutant: only the particles keep the loop going
ContinueWhileParticles(s) == DOMAIN s.particles # {}

ContinueAnimation(s) == DOMAIN s.particles # {} \/ Len(s.attractors) > 0

ScheduleNext(s) ==
  IF ContinueAnimation(s)
  THEN [s EXCEPT !.animationId = FreshHandle(s),
                 !.rafPending = s.rafPending \cup {FreshHandle(s)}]
  ELSE [s EXCEPT !.animationId = Null, !.lissajous = FALSE]

\* mutant: render() draws without looking for the context
renderUnguarded(s, hasCtx) == [s EXCEPT !.rendered = TRUE, !.steps = Step(s, "render")]

\* if (!this.ctx || !this.canvas) return; otherwise the canvas is drawn
render(s, hasCtx) == [s EXCEPT !.rendered = hasCtx, !.steps = Step(s, "render")]

NextTime(t) == IF t < MaxTime THEN t + 1 ELSE t

animate(s, hasCtx) ==
  ScheduleNext(render(UpdateParticles(StepFields(UpdateLissajous(
                 [s EXCEPT !.time = NextTime(s.time)]))),
                      hasCtx))

\* ------------------------------------------------------------------ clear
\* mutant: the requested frame is not cancelled
CancelFrameForgotten(pending, id) == pending

CancelFrame(pending, id) == pending \ {id}

\* mutant: clear() leaves the attractor list alone
ClearAttractorsKept(as) == as

ClearAttractors(as) == <<>>

\* mutant: clear() also restarts the id counter
clearResettingIds(s) ==
  [s EXCEPT !.particles = NoParticles,
            !.particleIdCounter = 0,
            !.attractors = ClearAttractors(s.attractors),
            !.fluid = {},
            !.flowField = NoFlow,
            !.rafPending = IF s.animationId # Null
                           THEN CancelFrame(s.rafPending, s.animationId)
                           ELSE s.rafPending,
            !.animationId = Null,
            !.lissajous = FALSE]

clear(s) ==
  [s EXCEPT !.particles = NoParticles,
            !.attractors = ClearAttractors(s.attractors),
            !.fluid = {},
            !.flowField = NoFlow,
            !.rafPending = IF s.animationId # Null
                           THEN CancelFrame(s.rafPending, s.animationId)
                           ELSE s.rafPending,
            !.animationId = Null,
            !.lissajous = FALSE]

\* the engine as its field initialisers and constructor leave it
Constructed ==
  [particles |-> NoParticles, attractors |-> <<>>, fluid |-> {},
   flowField |-> NoFlow, lissajous |-> FALSE, animationId |-> Null, time |-> 0,
   particleIdCounter |-> 0, rafPending |-> {}, timers |-> <<>>,
   rendered |-> FALSE, steps |-> <<>>, advanced |-> 0]

\* ---------------------------------------------------------------- actions
\* mutant: the reduced-motion preference is not consulted
isEnabledFlagOnly == enabled

isEnabled == enabled /\ ~prefersReducedMotion

\* the view only matters to constellation
Configs ==
  {cfg \in [type : Types, count : Counts, profile : MainProfiles, view : Views,
            intensity : {DefaultIntensity}] :
     cfg.type # "constellation" => cfg.view = "large"}

Rejected == [type |-> "rejected", count |-> 0, view |-> "large", accepted |-> FALSE]

\* accepted celebrate calls with a known type so far
celCount == Len(timers)

Apply(s) ==
  /\ particles' = s.particles
  /\ attractors' = s.attractors
  /\ fluid' = s.fluid
  /\ flowField' = s.flowField
  /\ lissajous' = s.lissajous
  /\ animationId' = s.animationId
  /\ time' = s.time
  /\ particleIdCounter' = s.particleIdCounter
  /\ rafPending' = s.rafPending
  /\ timers' = s.timers
  /\ rendered' = s.rendered
  /\ tickSteps' = s.steps
  /\ UNCHANGED probes

\* ------------------------------------------------------ attractor forces
\* (dist * dist + 100): the softening term of the force denominator
Softening == 100

\* mutant: the minimum distance is not tested
InRangeNoMinimum(d, radius) == d < DistScale * radius

\* dist < attractor.radius && dist > 0.1, for a distance in 1/DistScale px
InRange(d, radius) == d < DistScale * radius /\ 10 * d > DistScale

\* forceMag = strength * falloff^2 / (dist^2 + 100) with
\* falloff = 1 - dist / radius, as the fraction ForceNum / ForceDen
ForceNum(strength, radius, d) ==
  strength * (DistScale * radius - d) * (DistScale * radius - d)

ForceDen(radius, d) == radius * radius * (d * d + Softening * DistScale * DistScale)

\* The pull and the perpendicular share of forceMag, in tenths, by type; the
\* particle lies on the x axis at distance d, so dx / dist = 1 and
\* (perpX, perpY) = (0, 1).
AlongTenths(type) ==
  CASE type = "pull" -> 10
    [] type = "push" -> 0 - 10
    [] type = "orbit" -> 3
    [] OTHER -> 5

AcrossTenths(type) ==
  CASE type = "orbit" -> 7
    [] type = "vortex" -> 8
    [] OTHER -> 0

AttractorTypes == {"pull", "push", "orbit", "vortex"}

Strengths == {0, 50, MaxStrength}

Radii == 1..MaxRadius

\* distances around 0.1 px, inside the radius, at it and beyond it
Distances(radius) ==
  {0, 1, 2, 3, DistScale, DistScale * radius - 1, DistScale * radius,
   DistScale * radius + DistScale}

NoForce ==
  [type |-> "none", strength |-> 0, radius |-> 1, d |-> 0, applied |-> FALSE,
   num |-> 0, den |-> 1, ax |-> 0, ay |-> 0, divisor |-> DistScale]

\* the attractor loop of updateParticle for one attractor: ax and ay are
\* numerators over 10 * den, divisor is the dist the code divides by
attractorForce(f) ==
  IF InRange(f.d, f.radius)
  THEN [f EXCEPT !.applied = TRUE,
                 !.num = ForceNum(f.strength, f.radius, f.d),
                 !.den = ForceDen(f.radius, f.d),
                 !.ax = AlongTenths(f.type) * ForceNum(f.strength, f.radius, f.d),
                 !.ay = AcrossTenths(f.type) * ForceNum(f.strength, f.radius, f.d),
                 !.divisor = f.d]
  ELSE [f EXCEPT !.applied = TRUE]

\* ------------------------------------------------------- particle motion
\* gravity = 0.15 and drag = 0.98, in hundredths
GravityPercent == 15

DragPercent == 98

\* createVortex: radius: 400, strength: 200 * intensity
VortexRadius == 400

VortexStrength == 200

\* Math.sqrt on whole pixels
ISqrt(n) == CHOOSE r \in 0..(2 * VortexRadius) : r * r <= n /\ n < (r + 1) * (r + 1)

\* forceMag of the vortex attractor at dist pixels, in units
vortexForce(strength, dist) ==
  IF dist < VortexRadius /\ dist >= 1
  THEN (strength
          * (((VortexRadius - dist) * (VortexRadius - dist) * 1000)
               \div (VortexRadius * VortexRadius))
          * (Unit \div 1000))
         \div (dist * dist + Softening)
  ELSE 0

\* updateParticle for a particle p = [x, y, vx, vy] relative to the vortex
\* attractor: gravity, the attractor's 0.8 perpendicular and 0.5 pull, the
\* fluid velocity times fluidInfluence = 0.5, velocity, drag, position.
\* The flow field has no source in a vortex celebration.
MoveParticle(p, strength, fluidVy) ==
  LET dx == 0 - (p.x \div Unit)
      dy == 0 - (p.y \div Unit)
      dist == ISqrt(dx * dx + dy * dy)
      mag == vortexForce(strength, dist)
      ax == IF mag = 0 THEN 0
            ELSE (mag * (8 * (0 - dy) + 5 * dx)) \div (10 * dist)
      ay == (GravityPercent * Unit) \div 100
            + (IF mag = 0 THEN 0
               ELSE (mag * (8 * dx + 5 * dy)) \div (10 * dist))
      vx == ((p.vx + ax) * DragPercent) \div 100
      vy == ((p.vy + fluidVy \div 2 + ay) * DragPercent) \div 100
  IN [x |-> p.x + vx, y |-> p.y + vy, vx |-> vx, vy |-> vy]

\* createVortex spawns at radius 150 + random * 200 around the origin, at the
\* angle (i / count) * 2 pi, with the tangential speed 3 + random * 3
SpawnRadii == {150, 350}

SpawnSpeeds == {3, 4, 5}

\* cos and sin of the angle of particle i of 4
Cos4(i) == CASE i = 0 -> 1 [] i = 2 -> 0 - 1 [] OTHER -> 0

Sin4(i) == CASE i = 1 -> 1 [] i = 3 -> 0 - 1 [] OTHER -> 0

\* the tangent angle is the angle plus pi / 2
SpawnVortexParticle(i, radius, speed) ==
  [x |-> Cos4(i) * radius * Unit, y |-> Sin4(i) * radius * Unit,
   vx |-> Cos4((i + 1) % 4) * speed * Unit, vy |-> Sin4((i + 1) % 4) * speed * Unit]

\* fluid.addForce(gridX, gridY, 0, -50 * intensity, 10): with intensity 0 the
\* fluid is left at rest; with intensity 1 the solver of the external
\* library yields some upward velocity at the particle, or none
FluidVelocities(intensity) ==
  IF intensity = 0 THEN {0} ELSE {0, 0 - (Unit \div 10)}

NoMotion ==
  [ticks |-> 0, start |-> [x |-> 0, y |-> 0, vx |-> 0, vy |-> 0],
   inert |-> [x |-> 0, y |-> 0, vx |-> 0, vy |-> 0],
   driven |-> [x |-> 0, y |-> 0, vx |-> 0, vy |-> 0],
   inertStrength |-> 0, drivenStrength |-> 0]

\* ---------------------------------------------------------------- services
\* the default master volume 0.5, in tenths
DefaultVolume == 5

\* the service singletons as their constructors leave them: the media query
\* is read by ConfettiService, the device support by Sound and Haptic
ServicesConstructed(reduced, audio, vibration) ==
  /\ confettiService = [enabled |-> TRUE, prefersReducedMotion |-> reduced,
                        preferPhysics |-> TRUE]
  /\ soundService = [enabled |-> TRUE, volume |-> DefaultVolume, supported |-> audio]
  /\ hapticService = [enabled |-> TRUE, supported |-> vibration]

\* localStorage.getItem returns null for a key never written
EmptyStorage ==
  [soundEnabled |-> "null", hapticEnabled |-> "null",
   confettiEnabled |-> "null", volume |-> "null"]

NothingChosen == [sound |-> "unset", haptic |-> "unset", confetti |-> "unset"]

NoServiceOp == [op |-> "none", physics |-> FALSE]

\* no celebrateStreak call yet
NoStreak == [called |-> FALSE, days |-> 0, celebrated |-> <<>>]

\* no particle followed yet
NoTrailed == [spawned |-> FALSE, x |-> 0, trail |-> <<>>, ticks |-> 0, past |-> <<>>]

\* no spawn compared yet
NoPalette ==
  [source |-> "none", i |-> 0, group |-> 0, layer |-> 0, colors |-> 1,
   first |-> 0, second |-> 0]

StudiesAtRest ==
  /\ streak = NoStreak
  /\ trailed = NoTrailed
  /\ palette = NoPalette

Init ==
  /\ particles = NoParticles
  /\ attractors = <<>>
  /\ fluid = {}
  /\ flowField = NoFlow
  /\ lissajous = FALSE
  /\ animationId = Null
  /\ time = 0
  /\ particleIdCounter = 0
  /\ enabled = TRUE
  /\ prefersReducedMotion \in BOOLEAN
  /\ ctx = TRUE
  /\ rafPending = {}
  /\ timers = <<>>
  /\ lastOp = "init"
  /\ lastCfg = NoCfg
  /\ afterRecipe = NoSnapshot
  /\ cleared = FALSE
  /\ rendered = FALSE
  /\ tickSteps = <<>>
  /\ ServicesConstructed(prefersReducedMotion, TRUE, TRUE)
  /\ storage = EmptyStorage
  /\ chosen = NothingChosen
  /\ serviceOp = NoServiceOp
  /\ radiance = <<>>
  /\ force = NoForce
  /\ motion = NoMotion
  /\ StudiesAtRest

\* mutant: the previous attractors are kept
ResetAttractorsKept(as) == as

\* this.attractors = [] before the switch
ResetAttractors(as) == <<>>

\* a known type gets a timer queue of its own
BeginCall(s, cfg) ==
  [s EXCEPT !.attractors = ResetAttractors(s.attractors),
            !.timers = IF cfg.type \in Recipes THEN Append(s.timers, <<>>) ELSE s.timers]

\* mutant: celebrate runs animate() whether or not the loop is running
StartLoopAlways(s, hasCtx) == animate(s, hasCtx)

\* if (this.animationId === null) this.animate()
StartLoop(s, hasCtx) == IF s.animationId = Null THEN animate(s, hasCtx) ELSE s

celebrate(s, cfg, hasCtx) == StartLoop(RunRecipe(BeginCall(s, cfg), cfg), hasCtx)

\* engine.celebrate(cfg), whoever calls it
CelebrateCall(cfg) ==
  /\ lastOp' = "celebrate"
  /\ UNCHANGED <<enabled, prefersReducedMotion, ctx>>
  /\ IF ~isEnabled
     THEN /\ Apply(This)
          /\ UNCHANGED cleared
          /\ lastCfg' = Rejected
          /\ afterRecipe' = NoSnapshot
     ELSE /\ Apply(celebrate(This, cfg, ctx))
          /\ lastCfg' = [type |-> cfg.type, count |-> cfg.count, view |-> cfg.view,
                         accepted |-> TRUE]
          /\ afterRecipe' = [particles |-> RunRecipe(BeginCall(This, cfg), cfg).particles,
                             attractors |-> RunRecipe(BeginCall(This, cfg), cfg).attractors,
                             beforeParticles |-> particles,
                             beforeAttractors |-> attractors,
                             beforeCounter |-> particleIdCounter,
                             loopStarted |-> animationId = Null]
          /\ cleared' = FALSE

Celebrate(cfg) == CelebrateCall(cfg) /\ UNCHANGED outside

Forget == lastCfg' = NoCfg /\ afterRecipe' = NoSnapshot

\* engine.clear(), whoever calls it
ClearCall ==
  /\ Apply(clear(This))
  /\ lastOp' = "clear"
  /\ cleared' = TRUE
  /\ Forget
  /\ UNCHANGED <<enabled, prefersReducedMotion, ctx>>

Clear == ClearCall /\ UNCHANGED outside

\* engine.setEnabled(b), whoever calls it
SetEnabledCall(b) ==
  /\ enabled' = b
  /\ Apply(IF ~b THEN clear(This) ELSE This)
  /\ lastOp' = IF b THEN "enable" ELSE "disable"
  /\ cleared' = IF b THEN cleared ELSE TRUE
  /\ Forget
  /\ UNCHANGED <<prefersReducedMotion, ctx>>

SetEnabled(b) == SetEnabledCall(b) /\ UNCHANGED outside

Destroy ==
  /\ Apply(clear(This))
  /\ ctx' = FALSE
  /\ lastOp' = "destroy"
  /\ cleared' = TRUE
  /\ Forget
  /\ UNCHANGED <<enabled, prefersReducedMotion, outside>>

\* the prefers-reduced-motion media query changes: the 'change' listeners of
\* the engine and of ConfettiService both store e.matches
MediaQueryChange ==
  /\ prefersReducedMotion' = ~prefersReducedMotion
  /\ confettiService' =
       [confettiService EXCEPT !.prefersReducedMotion = ~prefersReducedMotion]
  /\ Apply(This)
  /\ lastOp' = "mediaQuery"
  /\ Forget
  /\ UNCHANGED <<enabled, ctx, cleared, soundService, hapticService, storage,
                 serviceHistory>>
  /\ UNCHANGED radiance

\* The secondary ring of a supernova is due after 100 ms and the shortest
\* life of its burst is 80 ticks: the host runs that timer before it has run
\* as many frames as the burst lives.  In the model's scale, where the burst
\* lives MinLife ticks and the first of them runs inside celebrate, that
\* leaves the frames before the last one.
RingFrames == MinLife - 2

RingDue(ts) ==
  \E c \in 1..Len(ts) : \E k \in 1..Len(ts[c]) :
    ts[c][k].kind = "ring" /\ ts[c][k].frames >= RingFrames

\* one more frame has passed for the pending ring timers
FramePassed(ts) ==
  [c \in 1..Len(ts) |->
     [k \in 1..Len(ts[c]) |->
        IF ts[c][k].kind = "ring"
        THEN [ts[c][k] EXCEPT !.frames = @ + 1]
        ELSE ts[c][k]]]

\* the host runs a requested frame callback
AnimationFrame ==
  /\ ~RingDue(timers)
  /\ \E h \in rafPending :
       Apply(animate([This EXCEPT !.rafPending = rafPending \ {h},
                                  !.timers = FramePassed(timers)], ctx))
  /\ lastOp' = "tick"
  /\ Forget
  /\ UNCHANGED <<enabled, prefersReducedMotion, ctx, cleared, outside>>

FireTimer(s, c, profile) ==
  LET t == Head(s.timers[c])
      rest == [s EXCEPT !.timers[c] = Tail(s.timers[c])]
  IN CASE t.kind = "ring" -> SpawnLoop(rest, 0, SupernovaRing(t.count), profile)
       [] t.kind = "pulse" -> AddFluid(rest, "resonance")
       [] OTHER -> addParticle(rest, LifeOf(profile, t.i))

\* the host runs the next due setTimeout callback of celebrate call c
TimerFire ==
  /\ \E c \in 1..Len(timers) : \E profile \in MainProfiles :
       /\ timers[c] # <<>>
       /\ Apply(FireTimer(This, c, profile))
  /\ lastOp' = "timer"
  /\ Forget
  /\ UNCHANGED <<enabled, prefersReducedMotion, ctx, cleared, outside>>

\* a call that passes the guard and names a recipe takes one of the
\* MaxCelebrations calls of the model
Bounded(cfg) == (isEnabled /\ cfg.type \in Recipes) => celCount < MaxCelebrations

Next ==
  \/ \E cfg \in Configs : Bounded(cfg) /\ Celebrate(cfg)
  \/ Clear
  \/ \E b \in BOOLEAN : SetEnabled(b)
  \/ Destroy
  \/ MediaQueryChange
  \/ AnimationFrame
  \/ TimerFire

Spec == Init /\ [][Next]_vars

\* A first and a second celebration, with the frames, timers and clear()
\* calls around them.
CelebrateFirst == \E cfg \in Configs : celCount = 0 /\ Celebrate(cfg)

CelebrateSecond == \E cfg \in Configs : celCount = 1 /\ Celebrate(cfg)

NextPair ==
  \/ CelebrateFirst
  \/ CelebrateSecond
  \/ Clear
  \/ MediaQueryChange
  \/ AnimationFrame
  \/ TimerFire

PairSpec == Init /\ [][NextPair]_vars

\* One celebration and then no further API call, the host delivering every
\* requested frame and every timer.
LiveConfigs ==
  {cfg \in [type : Types, count : 0..MaxCount, profile : Profiles, view : Views,
            intensity : {DefaultIntensity}] :
     cfg.type # "constellation" => cfg.view = "large"}

CelebrateAlone == \E cfg \in LiveConfigs : lastOp = "init" /\ Celebrate(cfg)

NextLive ==
  \/ CelebrateAlone
  \/ AnimationFrame
  \/ TimerFire

LiveSpec ==
  Init /\ [][NextLive]_vars /\ WF_vars(AnimationFrame) /\ WF_vars(TimerFire)

\* One celebrate call on the engine as constructed, over every count up to
\* BigCount, both life profiles and both views.
RecipeConfigs ==
  {cfg \in [type : Types, count : AllCounts, profile : Profiles, view : Views,
            intensity : {DefaultIntensity}] :
     cfg.type # "constellation" => cfg.view = "large"}

CelebrateOnce == \E cfg \in RecipeConfigs : lastOp = "init" /\ Celebrate(cfg)

RecipeSpec == Init /\ [][CelebrateOnce]_vars

\* One supernova on the engine as constructed, then the frames and the
\* timer of its secondary ring.
SupernovaConfigs ==
  [type : {"supernova"}, count : AllCounts \cup {ScenarioCount}, profile : MainProfiles,
   view : {"large"}, intensity : {DefaultIntensity}]

CelebrateSupernova == \E cfg \in SupernovaConfigs : lastOp = "init" /\ Celebrate(cfg)

NextSupernova ==
  \/ CelebrateSupernova
  \/ AnimationFrame
  \/ TimerFire

SupernovaSpec == Init /\ [][NextSupernova]_vars

\* ------------------------------------------------- CelebrationService
\* Boolean.prototype.toString, and the test === 'true' that reads it back
BoolToString(b) == IF b THEN "true" ELSE "false"

ParseBool(str) == str = "true"

\* Number.prototype.toString and parseFloat, for a volume in tenths
VolumeToString(v) ==
  CASE v = 0 -> "0"
    [] v = 10 -> "1"
    [] OTHER -> "0.5"

ParseVolume(str) ==
  CASE str = "0" -> 0
    [] str = "1" -> 10
    [] OTHER -> 5

\* SoundService.setVolume: Math.max(0, Math.min(1, volume)), in tenths
ClampVolume(v) == IF v < 0 THEN 0 ELSE Min(10, v)

\* the volumes a caller passes to setVolume, in tenths
VolumeInputs == {0 - 5, 5, 15}

SoundIsEnabled(sound) == sound.enabled /\ sound.supported

HapticIsEnabled(haptic) == haptic.enabled /\ haptic.supported

ConfettiIsEnabled(confetti) == confetti.enabled /\ ~confetti.prefersReducedMotion

\* savePreferences(): the four keys are written from the services' getters
savePreferences(sound, haptic, confetti) ==
  [soundEnabled |-> BoolToString(SoundIsEnabled(sound)),
   hapticEnabled |-> BoolToString(HapticIsEnabled(haptic)),
   confettiEnabled |-> BoolToString(ConfettiIsEnabled(confetti)),
   volume |-> VolumeToString(sound.volume)]

\* loadPreferences(): a key that is present overwrites the service's flag
LoadFlag(str, flag) == IF str # "null" THEN ParseBool(str) ELSE flag

LoadVolume(str, volume) == IF str # "null" THEN ClampVolume(ParseVolume(str)) ELSE volume

EngineUntouched == UNCHANGED <<engine, host, history, probes>>

SetSoundEnabled(v) ==
  /\ soundService' = [soundService EXCEPT !.enabled = v]
  /\ storage' = savePreferences(soundService', hapticService, confettiService)
  /\ chosen' = [chosen EXCEPT !.sound = BoolToString(v)]
  /\ serviceOp' = [op |-> "setSoundEnabled", physics |-> FALSE]
  /\ EngineUntouched
  /\ UNCHANGED <<hapticService, confettiService>>
  /\ UNCHANGED radiance

SetHapticEnabled(v) ==
  /\ hapticService' = [hapticService EXCEPT !.enabled = v]
  /\ storage' = savePreferences(soundService, hapticService', confettiService)
  /\ chosen' = [chosen EXCEPT !.haptic = BoolToString(v)]
  /\ serviceOp' = [op |-> "setHapticEnabled", physics |-> FALSE]
  /\ EngineUntouched
  /\ UNCHANGED <<soundService, confettiService>>
  /\ UNCHANGED radiance

\* ConfettiService.setEnabled passes the flag on to the engine
SetConfettiEnabled(v) ==
  /\ confettiService' = [confettiService EXCEPT !.enabled = v]
  /\ SetEnabledCall(v)
  /\ storage' = savePreferences(soundService, hapticService, confettiService')
  /\ chosen' = [chosen EXCEPT !.confetti = BoolToString(v)]
  /\ serviceOp' = [op |-> "setConfettiEnabled", physics |-> FALSE]
  /\ UNCHANGED <<soundService, hapticService>>
  /\ UNCHANGED radiance

SetVolume(v) ==
  /\ soundService' = [soundService EXCEPT !.volume = ClampVolume(v)]
  /\ storage' = savePreferences(soundService', hapticService, confettiService)
  /\ serviceOp' = [op |-> "setVolume", physics |-> FALSE]
  /\ EngineUntouched
  /\ UNCHANGED <<hapticService, confettiService, chosen>>
  /\ UNCHANGED radiance

\* enableAll() and disableAll()
SetAll(v) ==
  /\ soundService' = [soundService EXCEPT !.enabled = v]
  /\ hapticService' = [hapticService EXCEPT !.enabled = v]
  /\ confettiService' = [confettiService EXCEPT !.enabled = v]
  /\ SetEnabledCall(v)
  /\ storage' = savePreferences(soundService', hapticService', confettiService')
  /\ chosen' = [sound |-> BoolToString(v), haptic |-> BoolToString(v),
                confetti |-> BoolToString(v)]
  /\ serviceOp' = [op |-> IF v THEN "enableAll" ELSE "disableAll", physics |-> FALSE]
  /\ UNCHANGED radiance

\* The page is loaded again: the module singletons are constructed anew on
\* the same device, the CelebrationService constructor runs
\* loadPreferences(), and ConfettiService.setEnabled hands the stored flag to
\* the new engine.
Reload ==
  /\ soundService' =
       [enabled |-> LoadFlag(storage.soundEnabled, TRUE),
        volume |-> LoadVolume(storage.volume, DefaultVolume),
        supported |-> soundService.supported]
  /\ hapticService' =
       [enabled |-> LoadFlag(storage.hapticEnabled, TRUE),
        supported |-> hapticService.supported]
  /\ confettiService' =
       [enabled |-> LoadFlag(storage.confettiEnabled, TRUE),
        prefersReducedMotion |-> prefersReducedMotion,
        preferPhysics |-> TRUE]
  /\ Apply(Constructed)
  /\ enabled' = LoadFlag(storage.confettiEnabled, TRUE)
  /\ ctx' = TRUE
  /\ lastOp' = CASE storage.confettiEnabled = "null" -> "init"
                 [] storage.confettiEnabled = "true" -> "enable"
                 [] OTHER -> "disable"
  /\ cleared' = (storage.confettiEnabled = "false")
  /\ Forget
  /\ serviceOp' = [op |-> "reload", physics |-> FALSE]
  /\ UNCHANGED <<prefersReducedMotion, storage, chosen>>
  /\ UNCHANGED radiance

\* A first visit on any device, with the media query in either state.
PrefsInit ==
  /\ particles = NoParticles
  /\ attractors = <<>>
  /\ fluid = {}
  /\ flowField = NoFlow
  /\ lissajous = FALSE
  /\ animationId = Null
  /\ time = 0
  /\ particleIdCounter = 0
  /\ enabled = TRUE
  /\ prefersReducedMotion \in BOOLEAN
  /\ ctx = TRUE
  /\ rafPending = {}
  /\ timers = <<>>
  /\ lastOp = "init"
  /\ lastCfg = NoCfg
  /\ afterRecipe = NoSnapshot
  /\ cleared = FALSE
  /\ rendered = FALSE
  /\ tickSteps = <<>>
  /\ \E audio \in BOOLEAN : \E vibration \in BOOLEAN :
       ServicesConstructed(prefersReducedMotion, audio, vibration)
  /\ storage = EmptyStorage
  /\ chosen = NothingChosen
  /\ serviceOp = NoServiceOp
  /\ radiance = <<>>
  /\ force = NoForce
  /\ motion = NoMotion
  /\ StudiesAtRest

NextPrefs ==
  \/ \E v \in BOOLEAN : SetSoundEnabled(v)
  \/ \E v \in BOOLEAN : SetHapticEnabled(v)
  \/ \E v \in BOOLEAN : SetConfettiEnabled(v)
  \/ \E v \in VolumeInputs : SetVolume(v)
  \/ \E v \in BOOLEAN : SetAll(v)
  \/ Reload
  \/ MediaQueryChange

PrefsSpec == PrefsInit /\ [][NextPrefs]_vars

\* ----------------------------------------------------- ConfettiService
\* classic types are served by canvas-confetti presets
ClassicTypes == {"burst", "fireworks"}

ConfettiTypes == Recipes \cup ClassicTypes

\* isPhysicsType: PHYSICS_TYPES.includes(type)
isPhysicsType(type) == type \in Recipes

\* getPhysicsConfettiEngine() is never null in a browser
isPhysicsEnabled == confettiService.preferPhysics

\* the engine fills in what the service's config leaves out
ServiceCfg(type) ==
  [type |-> type, count |-> MaxCount, profile |-> "mixed", view |-> "large",
   intensity |-> DefaultIntensity]

\* celebratePhysics(config), as a call made by the service or its user
CelebratePhysicsCall(op, cfg) ==
  IF ConfettiIsEnabled(confettiService)
  THEN /\ CelebrateCall(cfg)
       /\ serviceOp' = [op |-> op, physics |-> TRUE]
  ELSE /\ EngineUntouched
       /\ serviceOp' = [op |-> op, physics |-> FALSE]

\* ConfettiService.celebrate(type), and with it the per-type methods that
\* only forward to it
ConfettiCelebrate(type) ==
  /\ IF ConfettiIsEnabled(confettiService) /\ isPhysicsType(type) /\ isPhysicsEnabled
     THEN CelebratePhysicsCall("celebrate", ServiceCfg(type))
     ELSE /\ EngineUntouched
          /\ serviceOp' = [op |-> "celebrate", physics |-> FALSE]
  /\ UNCHANGED <<services, chosen>>
  /\ UNCHANGED radiance

CelebratePhysics(cfg) ==
  /\ CelebratePhysicsCall("celebratePhysics", cfg)
  /\ UNCHANGED <<services, chosen>>
  /\ UNCHANGED radiance

\* arousal and valence in tenths; rnd stands for Math.random() > 0.5
EmotionType(arousal, valence, rnd, heartRate) ==
  IF heartRate > 0 THEN "resonance"
  ELSE IF arousal > 7 THEN (IF valence > 0 THEN "supernova" ELSE "vortex")
  ELSE IF arousal < 3 THEN (IF valence > 0 THEN "aurora" ELSE "nebula")
  ELSE IF valence > 5 THEN (IF rnd THEN "bloom" ELSE "harmony")
  ELSE IF valence > 0 THEN (IF rnd THEN "orbit" ELSE "constellation")
  ELSE (IF rnd THEN "cascade" ELSE "emergence")

Arousals == {2, 5, 8}

Valences == {0 - 5, 3, 8}

HeartRates == {0, 72}

CelebrateEmotion(arousal, valence, rnd, heartRate) ==
  /\ IF ConfettiIsEnabled(confettiService)
     THEN CelebratePhysicsCall("celebrateEmotion",
                               ServiceCfg(EmotionType(arousal, valence, rnd, heartRate)))
     ELSE /\ EngineUntouched
          /\ serviceOp' = [op |-> "celebrateEmotion", physics |-> FALSE]
  /\ UNCHANGED <<services, chosen>>
  /\ UNCHANGED radiance

\* ConfettiService.resonance(heartRate)
Resonance ==
  /\ CelebratePhysicsCall("resonance", ServiceCfg("resonance"))
  /\ UNCHANGED <<services, chosen>>
  /\ UNCHANGED radiance

SetPreferPhysics(prefer) ==
  /\ confettiService' = [confettiService EXCEPT !.preferPhysics = prefer]
  /\ serviceOp' = [op |-> "setPreferPhysics", physics |-> FALSE]
  /\ EngineUntouched
  /\ UNCHANGED <<soundService, hapticService, storage, chosen>>
  /\ UNCHANGED radiance

\* ConfettiService.setEnabled(enabled)
ConfettiSetEnabled(b) ==
  /\ confettiService' = [confettiService EXCEPT !.enabled = b]
  /\ SetEnabledCall(b)
  /\ serviceOp' = [op |-> "setEnabled", physics |-> FALSE]
  /\ UNCHANGED <<soundService, hapticService, storage, chosen>>
  /\ UNCHANGED radiance

\* ConfettiService.reset(): both renderers are cleared
ConfettiReset ==
  /\ ClearCall
  /\ serviceOp' = [op |-> "reset", physics |-> FALSE]
  /\ UNCHANGED <<services, chosen>>
  /\ UNCHANGED radiance

\* the engine accepts at most MaxCelebrations calls
Routable == isEnabled => celCount < MaxCelebrations

NextRouting ==
  \/ \E type \in ConfettiTypes : Routable /\ ConfettiCelebrate(type)
  \/ \E type \in Recipes : Routable /\ CelebratePhysics(ServiceCfg(type))
  \/ \E a \in Arousals : \E v \in Valences : \E rnd \in BOOLEAN : \E hr \in HeartRates :
       Routable /\ CelebrateEmotion(a, v, rnd, hr)
  \/ Routable /\ Resonance
  \/ \E prefer \in BOOLEAN : SetPreferPhysics(prefer)
  \/ \E b \in BOOLEAN : ConfettiSetEnabled(b)
  \/ ConfettiReset
  \/ MediaQueryChange
  \/ AnimationFrame
  \/ TimerFire

RoutingSpec == Init /\ [][NextRouting]_vars

\* ------------------------------------------------------ the force model
\* The engine as constructed, with every variable but the probes at rest.
AtRest ==
  /\ particles = NoParticles
  /\ attractors = <<>>
  /\ fluid = {}
  /\ flowField = NoFlow
  /\ lissajous = FALSE
  /\ animationId = Null
  /\ time = 0
  /\ particleIdCounter = 0
  /\ enabled = TRUE
  /\ prefersReducedMotion = FALSE
  /\ ctx = TRUE
  /\ rafPending = {}
  /\ timers = <<>>
  /\ lastOp = "init"
  /\ lastCfg = NoCfg
  /\ afterRecipe = NoSnapshot
  /\ cleared = FALSE
  /\ rendered = FALSE
  /\ tickSteps = <<>>
  /\ ServicesConstructed(FALSE, TRUE, TRUE)
  /\ storage = EmptyStorage
  /\ chosen = NothingChosen
  /\ serviceOp = NoServiceOp
  /\ radiance = <<>>
  /\ StudiesAtRest

ForceInit ==
  /\ AtRest
  /\ motion = NoMotion
  /\ \E type \in AttractorTypes : \E strength \in Strengths : \E radius \in Radii :
       \E d \in Distances(radius) :
         force = [NoForce EXCEPT !.type = type, !.strength = strength,
                                 !.radius = radius, !.d = d]

\* updateParticle meets the attractor
ApplyForce ==
  /\ ~force.applied
  /\ force' = attractorForce(force)
  /\ UNCHANGED <<engine, host, history, outside, motion, studies>>

ForceSpec == ForceInit /\ [][ApplyForce]_vars

\* ----------------------------------------------------- the motion model
\* celebrate({type: 'vortex', intensity: 0}) and its twin with intensity 1
MotionInit ==
  /\ AtRest
  /\ force = NoForce
  /\ \E i \in 0..3 : \E radius \in SpawnRadii : \E speed \in SpawnSpeeds :
       motion = [ticks |-> 0,
                 start |-> SpawnVortexParticle(i, radius, speed),
                 inert |-> SpawnVortexParticle(i, radius, speed),
                 driven |-> SpawnVortexParticle(i, radius, speed),
                 inertStrength |-> VortexStrength * 0,
                 drivenStrength |-> VortexStrength * 1]

\* one tick of animate() for both particles
MotionTick ==
  /\ motion.ticks < MaxTicks
  /\ \E calm \in FluidVelocities(0) : \E stirred \in FluidVelocities(1) :
       motion' = [motion EXCEPT
                    !.ticks = @ + 1,
                    !.inert = MoveParticle(@, motion.inertStrength, calm),
                    !.driven = MoveParticle(@, motion.drivenStrength, stirred)]
  /\ UNCHANGED <<engine, host, history, outside, force, studies>>

MotionSpec == MotionInit /\ [][MotionTick]_vars

\* ------------------------------------------------------ celebrateRadiance
\* the three phases: what each reports, vibrates, plays and celebrates
RadiancePhases ==
  <<[phase |-> 1, name |-> "supernova", haptic |-> "celebration", sound |-> "celebration"],
    [phase |-> 2, name |-> "aurora", haptic |-> "milestone", sound |-> "milestone"],
    [phase |-> 3, name |-> "constellation", haptic |-> "success", sound |-> "success"]>>

\* the calls of one phase, in the order of its statements; onPhaseChange?.()
\* calls nothing when no callback was passed
PhaseCalls(p, callback) ==
  (IF callback THEN <<[call |-> "onPhaseChange", phase |-> p.phase, name |-> p.name]>>
   ELSE <<>>)
  \o <<[call |-> "vibrate", phase |-> p.phase, name |-> p.haptic],
       [call |-> "play", phase |-> p.phase, name |-> p.sound],
       [call |-> "celebratePhysics", phase |-> p.phase, name |-> p.name]>>

\* setTimeout(() => onPhaseChange?.(0, 'complete'), 8000)
CompleteCalls(callback) ==
  IF callback THEN <<[call |-> "onPhaseChange", phase |-> 0, name |-> "complete"]>>
  ELSE <<>>

\* the three setTimeout calls: phase 2 after 2000 ms, phase 3 after 5000 ms,
\* completion (phase 0) after 8000 ms
RadianceTimers ==
  {[due |-> 2000, phase |-> 2], [due |-> 5000, phase |-> 3], [due |-> 8000, phase |-> 0]}

\* mutant: the host runs the timers of a call in any order
DueTimersAnyOrder(pending) == pending

\* the host runs the timers of one call in the order of their delays
DueTimers(pending) == {t \in pending : \A u \in pending : t.due <= u.due}

\* the physics config of a phase; its colours and its intensity (1.0, 0.8,
\* 0.6) shape velocities and colours, which are not part of the engine state
RadianceCfg(p) == ServiceCfg(p.name)

\* celebrateRadiance(onPhaseChange), the first such call
CelebrateRadiance ==
  /\ radiance = <<>>
  /\ \E callback \in BOOLEAN :
       radiance' = Append(radiance,
                          [callback |-> callback,
                           calls |-> PhaseCalls(RadiancePhases[1], callback),
                           pending |-> RadianceTimers])
  /\ CelebratePhysicsCall("celebrateRadiance", RadianceCfg(RadiancePhases[1]))
  /\ UNCHANGED <<services, chosen>>

\* the host runs the next setTimeout callback of celebrateRadiance call c
RadianceTimer ==
  \E c \in 1..Len(radiance) : \E t \in DueTimers(radiance[c].pending) :
    /\ radiance' =
         [radiance EXCEPT
            ![c].pending = @ \ {t},
            ![c].calls = @ \o (IF t.phase = 0 THEN CompleteCalls(radiance[c].callback)
                               ELSE PhaseCalls(RadiancePhases[t.phase],
                                               radiance[c].callback))]
    /\ IF t.phase = 0
       THEN /\ EngineUntouched
            /\ serviceOp' = [op |-> "celebrateRadiance", physics |-> FALSE]
       ELSE CelebratePhysicsCall("celebrateRadiance", RadianceCfg(RadiancePhases[t.phase]))
    /\ UNCHANGED <<services, chosen>>

\* One radiance sequence with the engine's frames and timers, the media
\* query and the confetti switch around it.
NextRadiance ==
  \/ CelebrateRadiance
  \/ RadianceTimer
  \/ AnimationFrame
  \/ TimerFire
  \/ MediaQueryChange
  \/ \E b \in BOOLEAN : ConfettiSetEnabled(b)

RadianceSpec == Init /\ [][NextRadiance]_vars

\* ------------------------------------------------------------ the trail
\* One coordinate stands for the {x, y, opacity} entry of a trail.
\* mutant: on overflow the entry just stored is the one dropped
StoreTrailDropNewest(trail, x) ==
  IF Len(<<x>> \o trail) > trailLength THEN trail ELSE <<x>> \o trail

\* trail.unshift({x, y, opacity}); if (trail.length > trailLength) trail.pop()
StoreTrail(trail, x) ==
  IF Len(<<x>> \o trail) > trailLength
  THEN SubSeq(<<x>> \o trail, 1, Len(trail))
  ELSE <<x>> \o trail

\* the displacement of one tick: particle.x += particle.vx * dt
TrailMoves == {0 - 1, 2}

\* addParticle: trail: []
TrailSpawn ==
  /\ ~trailed.spawned
  /\ \E x \in {0, 5} : trailed' = [NoTrailed EXCEPT !.spawned = TRUE, !.x = x]
  /\ UNCHANGED <<engine, host, history, outside, force, motion, streak, palette>>

\* updateParticle: the position is stored, then integrated
TrailTick ==
  /\ trailed.spawned
  /\ trailed.ticks < MaxTrailTicks
  /\ \E move \in TrailMoves :
       trailed' = [trailed EXCEPT !.trail = StoreTrail(trailed.trail, trailed.x),
                                  !.x = trailed.x + move,
                                  !.ticks = trailed.ticks + 1,
                                  !.past = <<trailed.x>> \o trailed.past]
  /\ UNCHANGED <<engine, host, history, outside, force, motion, streak, palette>>

NextTrail == TrailSpawn \/ TrailTick

TrailSpec == Init /\ [][NextTrail]_vars

\* ---------------------------------------------------------- the palette
\* A colour is its index in the colour list; colors is the list's length.
\* Every addParticle call of the recipes: the twelve recipes, the ring of
\* supernova apart from its burst.
PaletteSources == Recipes \cup {"supernova ring"}

\* const px = width * (0.1 + Math.random() * 0.8);
\* const streamIndex = Math.floor((px / width) * 7), for the draw r / DrawScale
StreamIndex(r) == (7 * DrawScale + 56 * r) \div (10 * DrawScale)

\* the color: property of the addParticle call of each recipe, for loop
\* index i, group index (ribbon, ring, centre, strand or petal), layer and
\* the draw r of Math.random() that the spawn makes before it
ColorOf(source, i, group, layer, colors, r) ==
  CASE source \in {"vortex", "supernova", "emergence", "harmony", "constellation",
                   "nebula"} -> i % colors
    [] source = "supernova ring" -> (i + 2) % colors
    [] source \in {"aurora", "resonance"} -> group % colors
    [] source = "orbit" -> (group + i) % colors
    [] source = "cascade" -> StreamIndex(r) % colors
    [] source = "helix" -> IF group = 0 THEN 0 ELSE colors - 1
    [] source = "bloom" -> (group + layer) % colors

Draws == 0..(DrawScale - 1)

\* the same spawn of the same configuration in two runs
ComparePalette ==
  /\ palette = NoPalette
  /\ \E source \in PaletteSources : \E i \in 0..MaxIndex : \E group \in 0..1 :
       \E layer \in 0..1 : \E colors \in 1..MaxColors :
         \E r1 \in Draws : \E r2 \in Draws :
           palette' = [source |-> source, i |-> i, group |-> group, layer |-> layer,
                       colors |-> colors,
                       first |-> ColorOf(source, i, group, layer, colors, r1),
                       second |-> ColorOf(source, i, group, layer, colors, r2)]
  /\ UNCHANGED <<engine, host, history, outside, force, motion, streak, trailed>>

PaletteSpec == Init /\ [][ComparePalette]_vars

\* ------------------------------------------------- celebrateStreak(days)
\* CELEBRATION_CONFIGS for the three types celebrateStreak can name
CELEBRATION_CONFIGS ==
  [streak |-> [confetti |-> "burst", sound |-> "streak", haptic |-> "streak",
               hapticIntensity |-> "medium"],
   streakMilestone |-> [confetti |-> "streak", sound |-> "celebration",
                        haptic |-> "celebration", hapticIntensity |-> "strong"],
   dailyCheckIn |-> [confetti |-> "burst", sound |-> "success",
                     haptic |-> "success", hapticIntensity |-> "medium"]]

\* CelebrationService.celebrate(type): the effects of the type's config, as
\* one entry of the log of celebrate calls
CelebrationOf(type) ==
  [type |-> type, haptic |-> CELEBRATION_CONFIGS[type].haptic,
   sound |-> CELEBRATION_CONFIGS[type].sound,
   confetti |-> CELEBRATION_CONFIGS[type].confetti]

\* a number of days, in units of 1/DayScale day
Days(n) == n * DayScale

\* mutant: the year is not a milestone
IsMilestoneNoYear(days) == days = Days(7) \/ days = Days(30) \/ days = Days(100)

\* days === 7 || days === 30 || days === 100 || days === 365
IsMilestone(days) ==
  days = Days(7) \/ days = Days(30) \/ days = Days(100) \/ days = Days(365)

\* the celebrate calls of one celebrateStreak(days), in order
celebrateStreak(days) ==
  IF days = Days(1) THEN <<CelebrationOf("dailyCheckIn")>>
  ELSE IF IsMilestone(days) THEN <<CelebrationOf("streakMilestone")>>
  ELSE <<CelebrationOf("streak")>>

\* days is a number: negative, zero and fractional values included
DayInputs == (-DayScale)..(MaxDays * DayScale)

CelebrateStreak ==
  /\ \E days \in DayInputs :
       streak' = [called |-> TRUE, days |-> days, celebrated |-> celebrateStreak(days)]
  /\ UNCHANGED <<engine, host, history, outside, force, motion, trailed, palette>>

StreakSpec == Init /\ [][CelebrateStreak]_vars

\* ----------------------------------------------------------------- claims
NoLiveParticle == DOMAIN particles = {}

NoTickScheduled == animationId = Null /\ rafPending = {}

\* C1: setEnabled(false) leaves no particle, no attractor and no scheduled
\* tick, and a second setEnabled(false) (enabled is already false, so it is
\* one more clear()) would change nothing.
C1_DisableClearsEverything ==
  lastOp = "disable" =>
    /\ ~enabled
    /\ NoLiveParticle
    /\ attractors = <<>>
    /\ NoTickScheduled
    /\ clear(This) = This

\* setEnabled(false) has run on an engine that had spawned particles
C1_Witness == lastOp = "disable" /\ particleIdCounter > 0 /\ time > 0

\* C2: once clear() / setEnabled(false) has run, no particle appears until
\* the next accepted celebrate.
C2_NoSpawnAfterClear == cleared => NoLiveParticle

\* C3: a celebrate call is accepted exactly when enabled and the
\* reduced-motion preference is off, and a call that is not accepted changes
\* nothing of the engine nor of the host's pending frames and timers.
C3_DisabledCelebrateIsNoOp ==
  [][lastOp' = "celebrate" =>
       /\ lastCfg'.accepted <=> (enabled /\ ~prefersReducedMotion)
       /\ ~(enabled /\ ~prefersReducedMotion) => UNCHANGED <<engine, host>>]_vars

\* a call was rejected for reduced motion while a celebration was running
C3_Witness ==
  /\ lastOp = "celebrate"
  /\ lastCfg = Rejected
  /\ enabled /\ prefersReducedMotion
  /\ ~NoLiveParticle
  /\ animationId # Null

\* C4: after clear() there is no particle, and as long as no celebrate has
\* been accepted since, no frame is requested, no tick runs and nothing is
\* rendered.
C4_ClearHaltsScheduling ==
  /\ lastOp = "clear" => NoLiveParticle
  /\ cleared => NoTickScheduled /\ lastOp # "tick" /\ ~rendered

\* clear() has run after a celebration that had spawned particles and had
\* ticked, and the host has gone on running timers since
C4_Witness == cleared /\ lastOp = "timer" /\ particleIdCounter > 0 /\ time > 0

\* C9: at the end of a tick, run by a frame or by the celebrate that starts
\* the loop, a next frame is requested exactly when a particle or an attractor
\* is left; otherwise animationId is null and the Lissajous state is deleted.
C9_TickReschedulesIffWorkLeft ==
  (lastOp = "tick" \/ (lastOp = "celebrate" /\ afterRecipe.loopStarted)) =>
    /\ animationId # Null <=> (~NoLiveParticle \/ attractors # <<>>)
    /\ animationId # Null => rafPending = {animationId}
    /\ animationId = Null => rafPending = {} /\ ~lissajous

\* a tick that ended with attractors only went on; a tick that ended with
\* nothing left stopped the loop
C9_Witness ==
  /\ lastOp = "tick"
  /\ NoLiveParticle
  /\ attractors # <<>>
  /\ animationId # Null


AcceptedCall == lastOp = "celebrate" /\ lastCfg.accepted

\* C5: right after the recipe of an accepted celebrate has run, the attractor
\* list holds the attractors of that recipe and nothing else: one for vortex,
\* resonance and bloom, three for orbit and harmony, none for the others, each
\* of the recipe's kind and where the recipe put it.
C5_AttractorsReplaced ==
  (AcceptedCall /\ lastCfg.type \in Recipes) =>
    LET as == afterRecipe.attractors
        kind == CASE lastCfg.type = "vortex" -> "vortex"
                  [] lastCfg.type = "orbit" -> "orbit"
                  [] OTHER -> "pull"
    IN /\ Len(as) = CASE lastCfg.type \in {"vortex", "resonance", "bloom"} -> 1
                      [] lastCfg.type \in {"orbit", "harmony"} -> 3
                      [] OTHER -> 0
       /\ \A i \in 1..Len(as) : as[i].type = kind /\ as[i].pos = "recipe"
       /\ Len(attractors) = Len(as)

\* a recipe without attractors ran on an engine that held attractors
C5_Witness ==
  /\ AcceptedCall
  /\ lastCfg.type = "supernova"
  /\ afterRecipe.beforeAttractors # <<>>

\* C6: right after the recipe of an accepted celebrate has run, every particle
\* that was live before the call is still there, unchanged, and the others are
\* the ones the call spawned, under the ids the counter handed out.
C6_ParticlesAdditive ==
  AcceptedCall =>
    /\ \A id \in DOMAIN afterRecipe.beforeParticles :
         /\ id \in DOMAIN afterRecipe.particles
         /\ afterRecipe.particles[id] = afterRecipe.beforeParticles[id]
    /\ DOMAIN afterRecipe.particles \ DOMAIN afterRecipe.beforeParticles
         = afterRecipe.beforeCounter .. (particleIdCounter - 1)

\* a second call spawned particles while particles of the first were live
C6_Witness ==
  /\ AcceptedCall
  /\ celCount = 2
  /\ afterRecipe.beforeParticles # NoParticles
  /\ particleIdCounter > afterRecipe.beforeCounter

FirstCall == AcceptedCall /\ lastCfg.type \in Recipes /\ celCount = 1

\* C7 as claimed: a celebrate on the engine as constructed leaves exactly
\* `count` live particles when it returns.
C7_ExactlyCount == FirstCall => Cardinality(DOMAIN particles) = lastCfg.count

\* C7 as amended: a celebrate on the engine as constructed leaves, when it
\* returns, the particles of the recipe's synchronous loops: count for vortex,
\* harmony and nebula; ceil(0.6 count) for supernova; count rounded down to a
\* multiple of 4 for aurora and resonance, of 3 for orbit, of 2 for helix;
\* 32 floor(floor(count / 8) / 4) for bloom; none for cascade and emergence;
\* for constellation the points of the spiral inside the margin.  Never more
\* than count.
C7_SynchronousCount ==
  FirstCall =>
    LET n == lastCfg.count
        live == Cardinality(DOMAIN particles)
    IN /\ live <= n
       /\ live = CASE lastCfg.type \in {"vortex", "harmony", "nebula"} -> n
                   [] lastCfg.type = "supernova" -> (6 * n + 9) \div 10
                   [] lastCfg.type \in {"aurora", "resonance"} -> n - (n % 4)
                   [] lastCfg.type = "orbit" -> n - (n % 3)
                   [] lastCfg.type = "helix" -> n - (n % 2)
                   [] lastCfg.type = "bloom" -> 32 * ((n \div 8) \div 4)
                   [] lastCfg.type \in {"cascade", "emergence"} -> 0
                   [] OTHER -> IF lastCfg.view = "large" \/ n = 0 THEN n ELSE 1

\* bloom with count = BigCount spawned 32 particles
C7_Witness ==
  /\ FirstCall
  /\ lastCfg.type = "bloom"
  /\ lastCfg.count > 32
  /\ Cardinality(DOMAIN particles) = 32

\* C8 as claimed: an accepted celebrate with an unknown type leaves the
\* engine and the host's pending frames and timers as they were.
C8_UnknownTypeIsNoOp ==
  [][(lastOp' = "celebrate" /\ lastCfg'.type = UnknownType) =>
       UNCHANGED <<particles, attractors, fluid, flowField, lissajous,
                   animationId, time, particleIdCounter, rafPending, timers>>]_vars

\* C10 as claimed: after an accepted celebrate of one of the twelve recipes and
\* no further API call, the engine reaches a state with no live particle and
\* no scheduled tick.
C10_EventuallyStops == (celCount > 0) ~> (NoLiveParticle /\ animationId = Null)

\* the recipes whose particles, or part of them, arrive by setTimeout
DelayedRecipe ==
  flowField.owner \in {"cascade", "emergence"} \/ "supernova" \in fluid

\* C11 as claimed: after a celebrate of cascade, emergence or supernova on an
\* idle engine and no further API call, the particles a delayed callback has
\* added are ticked until they are pruned: the engine gets back to a state
\* without a live particle.
C11_DelayedSpawnsAnimated ==
  (DelayedRecipe /\ lastOp = "timer" /\ ~NoLiveParticle) ~> NoLiveParticle

\* C12 as claimed: while the reduced-motion preference is active no tick runs
\* and no particle is added.
C12_ReducedMotionHaltsEngine ==
  [][(prefersReducedMotion /\ prefersReducedMotion') =>
       /\ lastOp' # "tick"
       /\ DOMAIN particles' \subseteq DOMAIN particles]_vars

\* C13: the opacity a tick gives a particle is min(1, 2 life / maxLife) of its
\* new life (here as a numerator over maxLife): 1 while the life is at least
\* half of maxLife, never more than before the tick, and 0 exactly when the
\* life is 0; every particle in the map carries that opacity.
C13_OpacityFollowsLife ==
  [][/\ \A id \in DOMAIN particles' :
          particles'[id].opacity
            = Min(particles'[id].maxLife, 2 * particles'[id].life)
     /\ lastOp' = "tick" =>
          \A id \in DOMAIN particles :
            LET p == particles[id]
                q == updateParticle(p)
            IN /\ q.life = p.life - dt
               /\ q.opacity = Min(q.maxLife, 2 * q.life)
               /\ 2 * q.life >= q.maxLife => q.opacity = q.maxLife
               /\ q.opacity <= p.opacity
               /\ q.opacity = 0 <=> q.life = 0
               /\ id \in DOMAIN particles' => particles'[id] = q]_vars

\* a particle in the fading half of its life has been ticked
C13_Witness ==
  /\ lastOp = "tick"
  /\ \E id \in DOMAIN particles :
       /\ particles[id].opacity < particles[id].maxLife
       /\ particles[id].opacity > 0

\* the steps that run a tick: a frame, or the celebrate that starts the loop
TickStep == lastOp' = "tick" \/ (lastOp' = "celebrate" /\ afterRecipe'.loopStarted)

\* C14: a tick takes exactly 1 (dt) from the life of every particle that was
\* live before it and removes the particle in that same tick when the life or
\* the opacity is then <= 0; every particle in the map has
\* 0 < life <= maxLife and 0 < opacity <= 1; a step that is neither a tick nor
\* a clear() keeps every particle as it was.
C14_LifeAndPruning ==
  [][/\ \A id \in DOMAIN particles' :
          /\ 0 < particles'[id].life
          /\ particles'[id].life <= particles'[id].maxLife
          /\ 0 < particles'[id].opacity
          /\ particles'[id].opacity <= particles'[id].maxLife
     /\ TickStep =>
          \A id \in DOMAIN particles :
            IF particles[id].life - dt > 0
            THEN /\ id \in DOMAIN particles'
                 /\ particles'[id].life = particles[id].life - dt
            ELSE id \notin DOMAIN particles'
     /\ (~TickStep /\ lastOp' # "clear") =>
          \A id \in DOMAIN particles :
            id \in DOMAIN particles' /\ particles'[id] = particles[id]]_vars

\* a tick has pruned a particle and kept another, one tick older
C14_Witness ==
  /\ lastOp = "tick"
  /\ Cardinality(DOMAIN particles) < particleIdCounter
  /\ \E id \in DOMAIN particles : particles[id].life < particles[id].maxLife - dt

\* C16 as claimed: the attractors, the flow-field sources, the fluid impulses
\* and the Lissajous parameters in force after an accepted celebrate are those
\* the same call leaves on a freshly constructed engine.
C16_OrderIndependent ==
  (AcceptedCall /\ lastCfg.type \in Recipes) =>
    LET cfg == [type |-> lastCfg.type, count |-> lastCfg.count,
                view |-> lastCfg.view, profile |-> "mixed",
                intensity |-> DefaultIntensity]
        fresh == RunRecipe(BeginCall(Constructed, cfg), cfg)
    IN /\ afterRecipe.attractors = fresh.attractors
       /\ flowField = fresh.flowField
       /\ fluid = fresh.fluid
       /\ lissajous => fresh.lissajous

\* C20: destroy() leaves no particle, no attractor, no scheduled tick and no
\* drawing surface; from then on nothing is rendered, while a celebrate still
\* spawns the recipe's particles, has the loop running with a frame requested
\* and, where it starts the loop, has ticked the new particles once.
C20_DestroyedEngineStillSimulates ==
  /\ lastOp = "destroy" =>
       NoLiveParticle /\ attractors = <<>> /\ NoTickScheduled /\ ~ctx
  /\ ~ctx => ~rendered
  /\ (AcceptedCall /\ ~ctx /\ lastCfg.type \in {"vortex", "harmony", "nebula"}) =>
       LET new == DOMAIN afterRecipe.particles \ DOMAIN afterRecipe.beforeParticles
       IN /\ Cardinality(new) = lastCfg.count
          /\ lastCfg.count > 0 => animationId # Null /\ animationId \in rafPending
          /\ afterRecipe.loopStarted =>
               \A id \in new : /\ id \in DOMAIN particles
                               /\ particles[id].life = particles[id].maxLife - dt

\* a frame has ticked live particles on a destroyed engine
C20_Witness == lastOp = "tick" /\ ~ctx /\ ~NoLiveParticle /\ time > 0

\* C18 as claimed: after a reload each service's enabled flag is the value
\* the user last chose for it.
C18_PreferencesRoundTrip ==
  serviceOp.op = "reload" =>
    /\ chosen.sound # "unset" => soundService.enabled = ParseBool(chosen.sound)
    /\ chosen.haptic # "unset" => hapticService.enabled = ParseBool(chosen.haptic)
    /\ chosen.confetti # "unset" =>
         confettiService.enabled = ParseBool(chosen.confetti)

\* C19 as claimed: with the physics preference off, no ConfettiService
\* operation calls the engine's celebrate.
C19_NoPhysicsWhenNotPreferred ==
  ~confettiService.preferPhysics => ~serviceOp.physics

\* C15: an attractor adds nothing to the acceleration of a particle at a
\* distance d >= radius or d <= 0.1; in between, the force magnitude is
\* strength (1 - d / radius)^2 / (d^2 + 100), at least 0 and at most
\* strength / 100, its denominator is at least 100, and the distance the
\* direction is divided by exceeds 0.1.  Distances are in 1/DistScale px, so
\* the magnitude is num / den with num = strength (DistScale radius - d)^2
\* and den = radius^2 (d^2 + 100 DistScale^2).
C15_AttractorForceBounded ==
  force.applied =>
    IF force.d >= DistScale * force.radius \/ 10 * force.d <= DistScale
    THEN force.ax = 0 /\ force.ay = 0 /\ force.num = 0
    ELSE /\ force.num = force.strength * (DistScale * force.radius - force.d)
                                       * (DistScale * force.radius - force.d)
         /\ force.den = force.radius * force.radius
                          * (force.d * force.d + 100 * DistScale * DistScale)
         /\ force.den >= 100 * DistScale * DistScale
         /\ 0 <= force.num
         /\ 100 * force.num <= force.strength * force.den
         /\ 10 * force.divisor > DistScale

\* the force was evaluated just above the minimum distance, with a strength
C15_Witness ==
  /\ force.applied
  /\ force.d = 3
  /\ force.strength > 0
  /\ force.num > 0

Abs(n) == IF n < 0 THEN 0 - n ELSE n

Displacement(p) == Abs(p.x - motion.start.x) + Abs(p.y - motion.start.y)

\* C17 as claimed: the particle of a vortex with intensity 0 has a
\* zero-strength attractor and, after any number of ticks, a negligible
\* displacement, no greater than that of its twin with intensity 1.
C17_ZeroIntensityInert ==
  motion.ticks > 0 =>
    /\ motion.inertStrength = 0
    /\ Displacement(motion.inert) <= NegligiblePx * Unit
    /\ Displacement(motion.inert) <= Displacement(motion.driven)

\* C21: celebrateStreak(days) makes exactly one celebrate call: dailyCheckIn
\* for one day, streakMilestone for 7, 30, 100 and 365 days, and streak for
\* every other number of days.
C21_StreakChoosesOne ==
  streak.called =>
    /\ Len(streak.celebrated) = 1
    /\ streak.celebrated[1].type =
         (CASE streak.days = 1 * DayScale -> "dailyCheckIn"
            [] streak.days \in {7 * DayScale, 30 * DayScale, 100 * DayScale,
                                365 * DayScale} -> "streakMilestone"
            [] OTHER -> "streak")

\* celebrateStreak(365) has run
C21_Witness ==
  streak.called /\ streak.days = 365 * DayScale /\ Len(streak.celebrated) = 1

\* what one radiance call has reported and requested so far
RECURSIVE Reported(_)
Reported(calls) ==
  IF calls = <<>> THEN <<>>
  ELSE IF Head(calls).call \in {"onPhaseChange", "celebratePhysics"}
       THEN <<<<Head(calls).call, Head(calls).phase, Head(calls).name>>>>
            \o Reported(Tail(calls))
       ELSE Reported(Tail(calls))

RadianceScript ==
  << <<"onPhaseChange", 1, "supernova">>, <<"celebratePhysics", 1, "supernova">>,
     <<"onPhaseChange", 2, "aurora">>, <<"celebratePhysics", 2, "aurora">>,
     <<"onPhaseChange", 3, "constellation">>, <<"celebratePhysics", 3, "constellation">>,
     <<"onPhaseChange", 0, "complete">> >>

\* C22: a celebrateRadiance(onPhaseChange) call reports (1, supernova),
\* (2, aurora), (3, constellation), (0, complete) in that order and once
\* each, and requests the physics celebration of each phase right after
\* reporting it: what it has reported and requested is always the beginning
\* of that script, and all of it once its three timers have run.
C22_RadianceScript ==
  \A c \in 1..Len(radiance) :
    radiance[c].callback =>
      /\ Len(Reported(radiance[c].calls)) <= Len(RadianceScript)
      /\ Reported(radiance[c].calls)
           = SubSeq(RadianceScript, 1, Len(Reported(radiance[c].calls)))
      /\ radiance[c].pending = {} => Reported(radiance[c].calls) = RadianceScript

\* a radiance call with a callback has run its three timers
C22_Witness ==
  \E c \in 1..Len(radiance) :
    /\ radiance[c].callback
    /\ radiance[c].pending = {}
    /\ Len(radiance[c].calls) = 13

\* C23: between host callbacks, a tick is scheduled whenever the particle
\* map or the attractor list is non-empty.
C23_WorkImpliesTick ==
  (~NoLiveParticle \/ attractors # <<>>) => animationId # Null

\* C24: at most one frame callback is pending, animationId is its handle and
\* is null exactly when none is pending, and a step that runs a frame runs
\* one tick: it consumes that one callback and requests at most one.
C24_SingleTickLoop ==
  /\ Cardinality(rafPending) <= 1
  /\ animationId # Null <=> rafPending # {}
  /\ rafPending \subseteq {animationId}

\* a second celebrate was accepted while the loop of the first was running,
\* and one frame is pending
C24_Witness ==
  /\ lastOp = "celebrate"
  /\ lastCfg.accepted
  /\ ~afterRecipe.loopStarted
  /\ Cardinality(rafPending) = 1

\* C25: a tick repositions the Lissajous attractors, then updates every
\* particle, then advances the fluid and flow fields, then deletes the dead
\* particles, then renders; the particles sample the fields as the previous
\* tick left them.
C25_TickOrder ==
  tickSteps # <<>> =>
    /\ [i \in 1..Len(tickSteps) |-> tickSteps[i].step]
         = <<"lissajous", "updateParticle", "fields", "delete", "render">>
    /\ \A i \in 1..Len(tickSteps) :
         tickSteps[i].step = "updateParticle" => tickSteps[i].advanced = 0

\* C26: an accepted celebrate of a recipe other than harmony leaves no
\* Lissajous state behind, and only the attractors harmony pushed (pull,
\* radius 200) are ever moved onto the Lissajous curves: those of orbit,
\* vortex, resonance and bloom stay where their recipe put them.
C26_LissajousOnlyForHarmony ==
  /\ (lastOp = "celebrate" /\ lastCfg.accepted
        /\ lastCfg.type \in Recipes \ {"harmony"}) => ~lissajous
  /\ \A i \in 1..Len(attractors) :
       attractors[i].pos = "lissajous" =>
         attractors[i].type = "pull" /\ attractors[i].radius = 200

\* C27: after n ticks the trail holds the particle's min(n, 8) most recent
\* earlier positions, the latest first: its first entry is the position
\* before the latest update and the entry dropped on overflow is the oldest.
C27_TrailIsFifo ==
  trailed.spawned =>
    /\ Len(trailed.trail) = Min(trailed.ticks, 8)
    /\ trailed.trail = SubSeq(trailed.past, 1, Min(trailed.ticks, 8))

\* the trail has overflowed: ten ticks, eight entries
C27_Witness ==
  trailed.spawned /\ trailed.ticks = 10 /\ Len(trailed.trail) = 8

\* C28: the id counter never decreases, whatever the operation (clear(),
\* setEnabled(false) and destroy() included); the particles an operation
\* adds get ids from the old counter value up to, not including, the new
\* one, so no id is handed out twice; and every particle is stored under
\* its own id.
C28_IdsNeverReused ==
  [][/\ particleIdCounter' >= particleIdCounter
     /\ DOMAIN particles' \ DOMAIN particles
          \subseteq particleIdCounter .. (particleIdCounter' - 1)
     /\ \A id \in DOMAIN particles' : particles'[id].id = id]_vars

\* after a clear(), setEnabled(false) or destroy(), a delayed spawn has added
\* a particle, and ids handed out before are no longer in the map
C28_Witness ==
  /\ cleared
  /\ lastOp = "timer"
  /\ ~NoLiveParticle
  /\ particleIdCounter > Cardinality(DOMAIN particles)

\* the step in which the host runs the timer of a supernova's secondary ring
RingStep ==
  /\ lastOp' = "timer"
  /\ Len(timers) = 1
  /\ timers[1] # <<>>
  /\ Head(timers[1]).kind = "ring"

\* C29 as claimed: the burst and the ring of a supernova on the engine as
\* constructed spawn exactly `count` particles together.
C29_ExactlyCount ==
  [][RingStep => particleIdCounter' = Head(timers[1]).count]_vars

\* C29 as amended: the burst spawns ceil(0.6 count) particles and the ring
\* ceil(0.4 count): together count when count is a multiple of 5 (60 and 40
\* for count = 100) and count + 1 otherwise.
C29_SupernovaShares ==
  [][RingStep =>
       LET count == Head(timers[1]).count
       IN /\ 10 * particleIdCounter >= 6 * count
          /\ 10 * (particleIdCounter - 1) < 6 * count
          /\ 10 * (particleIdCounter' - particleIdCounter) >= 4 * count
          /\ 10 * (particleIdCounter' - particleIdCounter - 1) < 4 * count
          /\ particleIdCounter' = (IF count % 5 = 0 THEN count ELSE count + 1)
          /\ count = 100 => particleIdCounter = 60 /\ particleIdCounter' = 100]_vars

\* the ring of a supernova of 33 or more has arrived (20 and 14 particles
\* for 33, 60 and 40 for 100)
C29_Witness ==
  /\ lastOp = "timer"
  /\ timers = <<<<>>>>
  /\ particleIdCounter > 33

\* C30: two runs of the same configuration give the same particle the same
\* colour, whatever Math.random() draws.
C30_PaletteDeterministic ==
  palette.source # "none" => palette.first = palette.second

====
